---- MODULE Spec2Model ----
(***************************************************************************)
(* The purchase-verification-and-settlement flow of buy_stuff_mcp:         *)
(* services/base_product_buyer.py (buy_products), core/email.py            *)
(* (send_email) and the buy_products branch of server.py (call_tool).      *)
(*                                                                         *)
(* The data store (wallet row, product catalog, orders table), the payment *)
(* facilitator and the email provider are the environment: every call to   *)
(* one of them either answers or raises, and a store write that raises may *)
(* or may not have been applied.                                           *)
(***************************************************************************)
EXTENDS Integers, Sequences, FiniteSets, TLC

(***************************************************************************)
(* Bounds of the model.                                                    *)
(***************************************************************************)
NumFlows == 2        \* invocation slots (tool calls that may be in flight)
MaxCalls == 2        \* invocations started in one behaviour
MaxLen == 2          \* longest productIDs list
INITIAL_CREDIT == 5000   \* wallet credit before the first invocation

Flows == 1..NumFlows

(***************************************************************************)
(* Configuration and literals of the source.                               *)
(***************************************************************************)
SELLER_WALLET == "0xbF751076C35516DdBcAF99994ef5fCF6dfDe42E5"
WALLET_UUID == "wallet-uuid"
EXPLORER_PREFIX == "https://sepolia.basescan.org/tx/"
ADMINS == <<"dennj.osele@gmail.com", "brendanregan100@gmail.com">>

\* Python's None, for an optional string and for an optional dict.
NoneStr == "<None>"
None == [none |-> TRUE]

(***************************************************************************)
(* The store's contents the flow reads but never writes: the catalog.      *)
(***************************************************************************)
Catalog ==
    { [id |-> 1, name |-> "Espresso", price |-> 1200, image |-> "img://1"],
      [id |-> 2, name |-> "Grinder", price |-> 800, image |-> "img://2"] }

\* The wallet row's email column: NULL, empty, an outside buyer, an admin.
WalletEmails == { NoneStr, "", "buyer@example.com", ADMINS[1] }

\* The productIDs argument: any list of at most MaxLen ids.
RECURSIVE ListsUpTo(_, _)
ListsUpTo(S, n) ==
    IF n = 0 THEN { <<>> }
    ELSE LET shorter == ListsUpTo(S, n - 1)
         IN shorter \cup { Append(l, x) : l \in { s \in shorter : Len(s) = n - 1 }, x \in S }

\* The ids a request may name: those of the catalog and one it does not hold.
RequestableIds == { 1, 2, 3 }

ProductIDLists == ListsUpTo(RequestableIds, MaxLen)

\* The signed_tx_hex argument: the flow never looks into it and only passes
\* it on to the facilitator, whose answer is free in any case.
SignedTxs == { "0xf86b" }

\* What the facilitator may answer (response.json()).
Verdicts ==
    { [allowed |-> TRUE, txHash |-> "0xabc"],
      [allowed |-> TRUE, txHash |-> ""],
      [allowed |-> TRUE],
      [allowed |-> FALSE],
      [error |-> "invalid transaction"] }

Range(s) == { s[i] : i \in 1..Len(s) }

(***************************************************************************)
(* Pure helpers of buy_products.                                           *)
(***************************************************************************)
\* Variant: only a missing argument is rejected (`if productIDs is None`).
ValidInputUnlessMissing(ids) == ids \in Seq(RequestableIds)

\* `not productIDs` is false: the list is non-empty.
ValidInput(ids) == Len(ids) > 0

\* .in_("id", productIDs): the catalog rows whose id is in the list, each
\* once, here in ascending id order.
RECURSIVE RowsAscending(_)
RowsAscending(rows) ==
    IF rows = {} THEN <<>>
    ELSE LET r == CHOOSE x \in rows : \A y \in rows : x.id <= y.id
         IN <<r>> \o RowsAscending(rows \ {r})

SelectProducts(ids) == RowsAscending({ r \in Catalog : r.id \in Range(ids) })

\* Variant: the price of the first product only.
TotalCostOfFirst(products) ==
    IF products = <<>> THEN 0 ELSE Head(products).price

\* sum(p["price"] for p in products)
RECURSIVE TotalCost(_)
TotalCost(products) ==
    IF products = <<>> THEN 0
    ELSE Head(products).price + TotalCost(Tail(products))

\* str(n) for an integer: its decimal digits, most significant first.
DigitChar(d) ==
    CASE d = 0 -> "0" [] d = 1 -> "1" [] d = 2 -> "2" [] d = 3 -> "3"
      [] d = 4 -> "4" [] d = 5 -> "5" [] d = 6 -> "6" [] d = 7 -> "7"
      [] d = 8 -> "8" [] d = 9 -> "9"

RECURSIVE NatToStr(_)
NatToStr(n) ==
    IF n < 10 THEN <<DigitChar(n)>>
    ELSE NatToStr(n \div 10) \o <<DigitChar(n % 10)>>

IntToStr(n) == IF n < 0 THEN <<"-">> \o NatToStr(0 - n) ELSE NatToStr(n)

\* The JSON body posted to the facilitator.
FacilitatorRequest(signed_tx_hex, total) ==
    [ signedTransactionHex |-> signed_tx_hex,
      expectedRecipient |-> SELLER_WALLET,
      expectedAmountWei |-> IntToStr(total) ]

\* Variant: the key is present (`"allowed" in result`).
AllowedIfPresent(result) == "allowed" \in DOMAIN result

\* result.get("allowed") is truthy.
Allowed(result) == "allowed" \in DOMAIN result /\ result.allowed

\* result.get("txHash")
TxHash(result) == IF "txHash" \in DOMAIN result THEN result.txHash ELSE NoneStr

\* f"https://sepolia.basescan.org/tx/{tx_hash}" if tx_hash else None
ExplorerUrl(tx_hash) ==
    IF tx_hash = NoneStr \/ tx_hash = "" THEN NoneStr ELSE EXPLORER_PREFIX \o tx_hash

\* The rows handed to orders.insert: one per resolved product.
OrderRows(products, serial) ==
    [ i \in 1..Len(products) |->
        [ wallet |-> WALLET_UUID,
          product_id |-> products[i].id,
          title |-> products[i].name,
          image |-> products[i].image,
          price |-> products[i].price,
          paid |-> TRUE,
          invocation |-> serial ] ]

(***************************************************************************)
(* The dicts buy_products returns.                                         *)
(***************************************************************************)
InvalidInputResult ==
    [ success |-> FALSE, message |-> <<"Invalid input. Expected product IDs.">> ]

WalletNotFoundResult ==
    [ success |-> FALSE, message |-> <<"Wallet not found.">> ]

NoProductsFoundResult ==
    [ success |-> FALSE, message |-> <<"No products found.">> ]

PaymentRequiredResult(total) ==
    [ success |-> FALSE,
      status |-> 402,
      message |-> <<"Payment required: ", total, " wei to ", SELLER_WALLET>>,
      payment_required |-> TRUE,
      seller_wallet |-> SELLER_WALLET,
      amount_wei |-> total ]

SuccessResult(products, total, result) ==
    [ success |-> TRUE,
      message |-> <<"Bought ", Len(products), " product(s) for ", total,
                    " wei. View transaction: ", ExplorerUrl(TxHash(result))>>,
      tx_hash |-> TxHash(result),
      explorer_url |-> ExplorerUrl(TxHash(result)) ]

ErrorResult(e) ==
    [ success |-> FALSE, message |-> <<"Error: ", e>> ]

(***************************************************************************)
(* State.                                                                  *)
(***************************************************************************)
VARIABLES
    wallet,          \* the wallet row [credit, email], or None when absent
    orders,          \* the orders table: rows in insertion order
    calls,           \* invocations started so far
    pc,              \* per slot: where the invocation stands
    productIDs,      \* per slot: argument
    signed_tx_hex,   \* per slot: argument
    wallet_data,     \* per slot: the wallet row as read at line 24
    products,        \* per slot: the rows read at line 30
    total_cost_wei,  \* per slot: line 36
    result,          \* per slot: the facilitator's answer, line 45
    admin_i,         \* per slot: position in the admin loop of line 97
    exc,             \* per slot: the exception caught at line 111
    ret,             \* per slot: the returned dict
    \* history of the invocation in each slot
    serial,          \* its number among the invocations started
    pre,             \* the store as it was when the invocation began
    io,              \* calls it made: store, facilitator, email
    request,         \* the body it posted to the facilitator
    faultAt          \* the step at which a call of it raised

vars == << wallet, orders, calls, pc, productIDs, signed_tx_hex, wallet_data,
           products, total_cost_wei, result, admin_i, exc, ret, serial, pre,
           io, request, faultAt >>

locals == << productIDs, signed_tx_hex, wallet_data, products, total_cost_wei,
             result, admin_i >>

NoIO == [store |-> 0, facilitator |-> 0, email |-> 0]

Init ==
    /\ wallet \in { None } \cup [credit : {INITIAL_CREDIT}, email : WalletEmails]
    /\ orders = <<>>
    /\ calls = 0
    /\ pc = [p \in Flows |-> "idle"]
    /\ productIDs = [p \in Flows |-> <<>>]
    /\ signed_tx_hex = [p \in Flows |-> ""]
    /\ wallet_data = [p \in Flows |-> None]
    /\ products = [p \in Flows |-> <<>>]
    /\ total_cost_wei = [p \in Flows |-> 0]
    /\ result = [p \in Flows |-> None]
    /\ admin_i = [p \in Flows |-> 1]
    /\ exc = [p \in Flows |-> NoneStr]
    /\ ret = [p \in Flows |-> None]
    /\ serial = [p \in Flows |-> 0]
    /\ pre = [p \in Flows |-> None]
    /\ io = [p \in Flows |-> NoIO]
    /\ request = [p \in Flows |-> None]
    /\ faultAt = [p \in Flows |-> "none"]

(***************************************************************************)
(* A call of the store, the facilitator or the email provider raises: the  *)
(* exception leaves the try body for the handler of line 111.              *)
(***************************************************************************)
Raise(p, step, text) ==
    /\ pc' = [pc EXCEPT ![p] = "except"]
    /\ exc' = [exc EXCEPT ![p] = text]
    /\ faultAt' = [faultAt EXCEPT ![p] = step]

Count(p, what) == io' = [io EXCEPT ![p][what] = @ + 1]

\* return <dict> inside the try body
Return(p, dict) ==
    /\ pc' = [pc EXCEPT ![p] = "returned"]
    /\ ret' = [ret EXCEPT ![p] = dict]

Goto(p, label) == pc' = [pc EXCEPT ![p] = label]

\* No invocation is in flight.
Quiet == \A q \in Flows : pc[q] = "idle"

(***************************************************************************)
(* server.py, call_tool: buy_tool.run_async(args=arguments) enters         *)
(* buy_products with the caller's arguments.                               *)
(***************************************************************************)
Enter(p, lists, txs) ==
    /\ pc[p] = "idle"
    /\ calls < MaxCalls
    /\ calls' = calls + 1
    /\ \E ids \in lists, tx \in txs :
         /\ productIDs' = [productIDs EXCEPT ![p] = ids]
         /\ signed_tx_hex' = [signed_tx_hex EXCEPT ![p] = tx]
    /\ serial' = [serial EXCEPT ![p] = calls + 1]
    /\ pre' = [pre EXCEPT ![p] = [wallet |-> wallet, orders |-> orders]]
    /\ Goto(p, "validate")
    /\ UNCHANGED << wallet, orders, wallet_data, products,
                    total_cost_wei, result, admin_i, exc, ret, io, request, faultAt >>

\* One hosting process: buy_products is synchronous, so the event loop runs
\* one invocation to its return before it takes the next tool call.
Call(p) == Quiet /\ Enter(p, ProductIDLists, SignedTxs)

\* Several hosting processes on one store: invocations overlap. The requests
\* are an empty one, one naming no product of the catalog, and two that
\* resolve (one of them only in part).
ConcurrentLists == { <<>>, <<3>>, <<1>>, <<2, 3, 1>> }

CallConcurrently(p) == Enter(p, ConcurrentLists, SignedTxs)

\* lines 20-21
Validate(p) ==
    /\ pc[p] = "validate"
    /\ IF ValidInput(productIDs[p])
       THEN Goto(p, "fetch_wallet") /\ UNCHANGED ret
       ELSE Return(p, InvalidInputResult)
    /\ UNCHANGED << wallet, orders, calls, locals, exc, serial, pre,
                    io, request, faultAt >>

\* lines 24-27
FetchWallet(p) ==
    /\ pc[p] = "fetch_wallet"
    /\ Count(p, "store")
    /\ \/ /\ Raise(p, "fetch_wallet", "store")
          /\ UNCHANGED << wallet_data, ret >>
       \/ /\ wallet_data' = [wallet_data EXCEPT ![p] = wallet]
          /\ IF wallet = None
             THEN Return(p, WalletNotFoundResult)
             ELSE Goto(p, "fetch_products") /\ UNCHANGED ret
          /\ UNCHANGED << exc, faultAt >>
    /\ UNCHANGED << wallet, orders, calls, productIDs, signed_tx_hex,
                    products, total_cost_wei, result, admin_i, serial, pre,
                    request >>

\* lines 30-36
FetchProducts(p) ==
    /\ pc[p] = "fetch_products"
    /\ Count(p, "store")
    /\ \/ /\ Raise(p, "fetch_products", "store")
          /\ UNCHANGED << products, total_cost_wei, ret >>
       \/ /\ products' = [products EXCEPT ![p] = SelectProducts(productIDs[p])]
          /\ IF products'[p] = <<>>
             THEN /\ Return(p, NoProductsFoundResult)
                  /\ UNCHANGED total_cost_wei
             ELSE /\ total_cost_wei' =
                        [total_cost_wei EXCEPT ![p] = TotalCost(products'[p])]
                  /\ Goto(p, "verify")
                  /\ UNCHANGED ret
          /\ UNCHANGED << exc, faultAt >>
    /\ UNCHANGED << wallet, orders, calls, productIDs, signed_tx_hex,
                    wallet_data, result, admin_i, serial, pre, request >>

\* lines 39-54: the POST, response.json() and the test of "allowed"
VerifyPayment(p) ==
    /\ pc[p] = "verify"
    /\ Count(p, "facilitator")
    /\ request' = [request EXCEPT ![p] =
                      FacilitatorRequest(signed_tx_hex[p], total_cost_wei[p])]
    /\ \/ /\ Raise(p, "verify", "facilitator")
          /\ UNCHANGED << result, ret >>
       \/ \E verdict \in Verdicts :
            /\ result' = [result EXCEPT ![p] = verdict]
            /\ IF Allowed(verdict)
               THEN Goto(p, "insert_orders") /\ UNCHANGED ret
               ELSE Return(p, PaymentRequiredResult(total_cost_wei[p]))
            /\ UNCHANGED << exc, faultAt >>
    /\ UNCHANGED << wallet, orders, calls, productIDs, signed_tx_hex,
                    wallet_data, products, total_cost_wei, admin_i, serial,
                    pre >>

\* Variant: an upsert on product_id, which replaces the earlier rows of the
\* same products.
InsertOrdersUpsert(p) ==
    /\ pc[p] = "insert_orders"
    /\ Count(p, "store")
    /\ orders' =
         SelectSeq(orders, LAMBDA r : \A i \in 1..Len(products[p]) :
                                         r.product_id # products[p][i].id)
           \o OrderRows(products[p], serial[p])
    /\ Goto(p, "update_credit")
    /\ UNCHANGED << wallet, calls, locals, exc, faultAt, ret, serial, pre, request >>

\* lines 59-69
InsertOrders(p) ==
    /\ pc[p] = "insert_orders"
    /\ Count(p, "store")
    /\ \E applied \in BOOLEAN, raised \in BOOLEAN :
         /\ applied \/ raised
         /\ IF applied
            THEN orders' = orders \o OrderRows(products[p], serial[p])
            ELSE UNCHANGED orders
         /\ IF raised
            THEN Raise(p, "insert_orders", "store")
            ELSE Goto(p, "update_credit") /\ UNCHANGED << exc, faultAt >>
    /\ UNCHANGED << wallet, calls, locals, ret, serial, pre, request >>

\* lines 57 and 70: the value written is the credit read at line 24 minus
\* the total
UpdateCredit(p) ==
    /\ pc[p] = "update_credit"
    /\ Count(p, "store")
    /\ \E applied \in BOOLEAN, raised \in BOOLEAN :
         /\ applied \/ raised
         /\ IF applied /\ wallet # None
            THEN wallet' = [wallet EXCEPT
                              !.credit = wallet_data[p].credit - total_cost_wei[p]]
            ELSE UNCHANGED wallet
         /\ IF raised
            THEN Raise(p, "update_credit", "store")
            ELSE Goto(p, "notify") /\ UNCHANGED << exc, faultAt >>
    /\ UNCHANGED << orders, calls, locals, ret, serial, pre, request >>

\* lines 73-75
Notify(p) ==
    /\ pc[p] = "notify"
    /\ IF wallet_data[p].email = NoneStr \/ wallet_data[p].email = ""
       THEN Goto(p, "finish")
       ELSE Goto(p, "send_buyer")
    /\ UNCHANGED << wallet, orders, calls, locals, exc, ret, serial,
                    pre, io, request, faultAt >>

\* core/email.py send_email: resend.Emails.send delivers or raises
SendEmail(p, to_email, step, next) ==
    /\ Count(p, "email")
    /\ \/ Raise(p, step, "email")
       \/ Goto(p, next) /\ UNCHANGED << exc, faultAt >>

\* lines 76-95
SendBuyerEmail(p) ==
    /\ pc[p] = "send_buyer"
    /\ SendEmail(p, wallet_data[p].email, "send_buyer",
                 IF wallet_data[p].email \in Range(ADMINS)
                 THEN "finish" ELSE "send_admin")
    /\ admin_i' = [admin_i EXCEPT ![p] = 1]
    /\ UNCHANGED << wallet, orders, calls, productIDs, signed_tx_hex,
                    wallet_data, products, total_cost_wei, result, ret, serial,
                    pre, request >>

\* lines 96-98
SendAdminEmail(p) ==
    /\ pc[p] = "send_admin"
    /\ SendEmail(p, ADMINS[admin_i[p]], "send_admin",
                 IF admin_i[p] < Len(ADMINS) THEN "send_admin" ELSE "finish")
    /\ admin_i' = [admin_i EXCEPT ![p] = IF pc'[p] = "send_admin" THEN @ + 1 ELSE @]
    /\ UNCHANGED << wallet, orders, calls, productIDs, signed_tx_hex,
                    wallet_data, products, total_cost_wei, result, ret, serial,
                    pre, request >>

\* lines 101-109
Finish(p) ==
    /\ pc[p] = "finish"
    /\ Return(p, SuccessResult(products[p], total_cost_wei[p], result[p]))
    /\ UNCHANGED << wallet, orders, calls, locals, exc, serial, pre,
                    io, request, faultAt >>

\* Variant: the handler undoes the settlement before it returns the error.
ExceptRollingBack(p) ==
    /\ pc[p] = "except"
    /\ Return(p, ErrorResult(exc[p]))
    /\ orders' = SelectSeq(orders, LAMBDA r : r.invocation # serial[p])
    /\ wallet' = pre[p].wallet
    /\ UNCHANGED << calls, locals, exc, serial, pre, io, request, faultAt >>

\* Variant: the handler lets the exception of an email send through.
ExceptReraising(p) ==
    /\ pc[p] = "except"
    /\ IF exc[p] = "email"
       THEN Goto(p, "unhandled") /\ UNCHANGED ret
       ELSE Return(p, ErrorResult(exc[p]))
    /\ UNCHANGED << wallet, orders, calls, locals, exc, serial, pre,
                    io, request, faultAt >>

\* lines 111-112
Except(p) ==
    /\ pc[p] = "except"
    /\ Return(p, ErrorResult(exc[p]))
    /\ UNCHANGED << wallet, orders, calls, locals, exc, serial, pre,
                    io, request, faultAt >>

\* server.py lines 87-88: call_tool turns the dict into its message and the
\* invocation's frame is gone.
Dispatch(p) ==
    /\ pc[p] = "returned"
    /\ pc' = [pc EXCEPT ![p] = "idle"]
    /\ productIDs' = [productIDs EXCEPT ![p] = <<>>]
    /\ signed_tx_hex' = [signed_tx_hex EXCEPT ![p] = ""]
    /\ wallet_data' = [wallet_data EXCEPT ![p] = None]
    /\ products' = [products EXCEPT ![p] = <<>>]
    /\ total_cost_wei' = [total_cost_wei EXCEPT ![p] = 0]
    /\ result' = [result EXCEPT ![p] = None]
    /\ admin_i' = [admin_i EXCEPT ![p] = 1]
    /\ exc' = [exc EXCEPT ![p] = NoneStr]
    /\ ret' = [ret EXCEPT ![p] = None]
    /\ serial' = [serial EXCEPT ![p] = 0]
    /\ pre' = [pre EXCEPT ![p] = None]
    /\ io' = [io EXCEPT ![p] = NoIO]
    /\ request' = [request EXCEPT ![p] = None]
    /\ faultAt' = [faultAt EXCEPT ![p] = "none"]
    /\ UNCHANGED << wallet, orders, calls >>

Step(p) ==
    \/ Validate(p)
    \/ FetchWallet(p)
    \/ FetchProducts(p)
    \/ VerifyPayment(p)
    \/ InsertOrders(p)
    \/ UpdateCredit(p)
    \/ Notify(p)
    \/ SendBuyerEmail(p)
    \/ SendAdminEmail(p)
    \/ Finish(p)
    \/ Except(p)
    \/ Dispatch(p)

Next == \E p \in Flows : Call(p) \/ Step(p)

Spec == Init /\ [][Next]_vars

NextConcurrent == \E p \in Flows : CallConcurrently(p) \/ Step(p)

ConcurrentSpec == Init /\ [][NextConcurrent]_vars

(***************************************************************************)
(* Vocabulary of the properties. None of it is used by the actions.        *)
(***************************************************************************)
Returned(p) == pc[p] = "returned"

\* The rows of the orders table that invocation p inserted.
RowsOf(p) == SelectSeq(orders, LAMBDA r : r.invocation = serial[p])

\* The facilitator's answer, read without the flow's own test.
VerdictAllows(v) == v \in { x \in Verdicts : "allowed" \in DOMAIN x } /\ v.allowed = TRUE
VerdictRefuses(v) == v \in Verdicts /\ ~VerdictAllows(v)

StoreSteps == { "fetch_wallet", "fetch_products", "insert_orders", "update_credit" }
EmailSteps == { "send_buyer", "send_admin" }

\* The sum of the catalog prices of the ids a request names, from the
\* catalog itself.
RECURSIVE SumPrices(_)
SumPrices(rows) ==
    IF rows = {} THEN 0
    ELSE LET r == CHOOSE x \in rows : TRUE
         IN r.price + SumPrices(rows \ {r})

Resolved(ids) == { r \in Catalog : \E i \in 1..Len(ids) : ids[i] = r.id }

ExpectedTotal(p) == SumPrices(Resolved(productIDs[p]))

\* The integer a decimal string denotes.
DigitValue(c) ==
    CASE c = "0" -> 0 [] c = "1" -> 1 [] c = "2" -> 2 [] c = "3" -> 3
      [] c = "4" -> 4 [] c = "5" -> 5 [] c = "6" -> 6 [] c = "7" -> 7
      [] c = "8" -> 8 [] c = "9" -> 9

RECURSIVE ParseDecimal(_)
ParseDecimal(str) ==
    IF str = <<>> THEN 0
    ELSE 10 * ParseDecimal(SubSeq(str, 1, Len(str) - 1)) + DigitValue(str[Len(str)])

\* The store as invocation p found it.
CreditBefore(p) == pre[p].wallet.credit
StoreUntouchedSince(p) == orders = pre[p].orders /\ wallet = pre[p].wallet

\* One row per resolved product, paid, at the product's own price.
OneRowPerProduct(p) ==
    LET rows == RowsOf(p)
        resolved == Resolved(productIDs[p])
    IN /\ Len(rows) = Cardinality(resolved)
       /\ \A r \in resolved :
            \E i \in 1..Len(rows) :
               /\ rows[i].product_id = r.id
               /\ rows[i].price = r.price
               /\ rows[i].paid = TRUE
               /\ rows[i].wallet = WALLET_UUID

IsPaymentRequired(d) == "payment_required" \in DOMAIN d /\ d.payment_required = TRUE
IsSuccess(d) == "success" \in DOMAIN d /\ d.success = TRUE
IsFailure(d) == "success" \in DOMAIN d /\ d.success = FALSE /\ ~IsPaymentRequired(d)

(***************************************************************************)
(* C1. When invocations overlap on one wallet and each of them is allowed  *)
(* and succeeds, the credit after the last of them has returned is the     *)
(* initial credit minus the sum of their total costs.                      *)
(* The code reads the credit at line 24 and writes credit-as-read minus    *)
(* total at line 70: the later write erases the earlier debit.             *)
(***************************************************************************)
RECURSIVE SumOfTotals(_)
SumOfTotals(ps) ==
    IF ps = {} THEN 0
    ELSE LET q == CHOOSE x \in ps : TRUE
         IN total_cost_wei[q] + SumOfTotals(ps \ {q})

C1_NoLostUpdate ==
    ( /\ calls = Cardinality(Flows)
      /\ \A p \in Flows : Returned(p) /\ IsSuccess(ret[p]) )
    => wallet.credit = INITIAL_CREDIT - SumOfTotals(Flows)

(***************************************************************************)
(* C2. Settlement is all-or-nothing: when an invocation has returned, its  *)
(* order rows are in the store exactly if the credit was debited by its    *)
(* total cost.                                                             *)
(***************************************************************************)
C2_AllOrNothing ==
    \A p \in Flows :
        (Returned(p) /\ wallet_data[p] # None /\ products[p] # <<>>)
        => ( (RowsOf(p) # <<>>) <=> (wallet.credit = CreditBefore(p) - total_cost_wei[p]) )

(***************************************************************************)
(* C3. An email send that raises after an allowed payment, a completed     *)
(* insert and a completed debit still ends in a result with success=true.  *)
(***************************************************************************)
C3_NotificationFailureNotSurfaced ==
    \A p \in Flows :
        (Returned(p) /\ faultAt[p] \in EmailSteps) => IsSuccess(ret[p])

(***************************************************************************)
(* C4. When the facilitator does not allow the payment, the invocation     *)
(* inserts no order row and leaves the wallet as it was, and it returns    *)
(* success=false, payment_required=true, status 402, the configured seller *)
(* address and amount_wei = total_cost.                                    *)
(***************************************************************************)
C4_PaymentRequiredIsFrame ==
    \A p \in Flows :
        (result[p] # None /\ VerdictRefuses(result[p]))
        => /\ Returned(p)
           /\ RowsOf(p) = <<>>
           /\ StoreUntouchedSince(p)
           /\ ret[p].success = FALSE
           /\ IsPaymentRequired(ret[p])
           /\ ret[p].status = 402
           /\ ret[p].seller_wallet = SELLER_WALLET
           /\ ret[p].amount_wei = total_cost_wei[p]
           /\ total_cost_wei[p] = ExpectedTotal(p)

\* A refusal met by the second invocation, after a first one has settled.
C4_Witness ==
    \E p \in Flows :
        /\ Returned(p)
        /\ result[p] = [allowed |-> FALSE]
        /\ orders # <<>>
        /\ wallet.credit < INITIAL_CREDIT
        /\ ret[p].amount_wei = 2000

(***************************************************************************)
(* C5. An invocation running alone whose payment is allowed and whose      *)
(* store calls all answer inserts one paid row per resolved product at the *)
(* product's price, debits the credit by total_cost and returns            *)
(* success=true, with explorer_url = the explorer prefix followed by the   *)
(* txHash when the verdict carries one.                                    *)
(***************************************************************************)
C5_AllowedInvocationSucceeds ==
    \A p \in Flows :
        (Returned(p) /\ result[p] # None /\ VerdictAllows(result[p])
           /\ faultAt[p] \notin StoreSteps)
        => /\ OneRowPerProduct(p)
           /\ wallet.credit = CreditBefore(p) - ExpectedTotal(p)
           /\ IsSuccess(ret[p])
           /\ ( ("txHash" \in DOMAIN result[p] /\ result[p].txHash # "")
                => ret[p].explorer_url = EXPLORER_PREFIX \o result[p].txHash )

(***************************************************************************)
(* C6. An empty productIDs list ends in the InvalidInput failure and the   *)
(* invocation calls neither the store nor the facilitator nor the email    *)
(* sender.                                                                 *)
(***************************************************************************)
C6_EmptyRequestTouchesNothing ==
    \A p \in Flows :
        (pc[p] # "idle" /\ productIDs[p] = <<>>)
        => /\ pc[p] \in { "validate", "returned" }
           /\ io[p] = [store |-> 0, facilitator |-> 0, email |-> 0]
           /\ request[p] = None
           /\ StoreUntouchedSince(p)
           /\ Returned(p) => (ret[p] = InvalidInputResult /\ IsFailure(ret[p]))

C6_Witness ==
    \E p \in Flows :
        Returned(p) /\ productIDs[p] = <<>> /\ ret[p].success = FALSE /\ calls = 2

(***************************************************************************)
(* C7. After the buyer email or an admin email has failed, the order rows  *)
(* of the invocation are still in the store and the credit is still the    *)
(* debited value: nothing the flow does afterwards undoes the settlement.  *)
(***************************************************************************)
C7_EmailFailureKeepsSettlement ==
    \A p \in Flows :
        (pc[p] # "idle" /\ faultAt[p] \in EmailSteps)
        => /\ OneRowPerProduct(p)
           /\ wallet.credit = CreditBefore(p) - total_cost_wei[p]
           /\ Len(orders) = Len(pre[p].orders) + Len(products[p])

C7_Witness ==
    \E p \in Flows :
        /\ Returned(p)
        /\ faultAt[p] = "send_admin"
        /\ admin_i[p] = 2
        /\ Len(RowsOf(p)) = 2
        /\ wallet.credit = INITIAL_CREDIT - 2000

(***************************************************************************)
(* C8. An invocation that has returned holds a dict with a success field   *)
(* that is a success, a payment-required or a failure result; once a store,*)
(* facilitator or email call has raised, the invocation is in the handler  *)
(* or has returned the failure result carrying the exception's text, and   *)
(* an invocation in flight always has a next step (nothing escapes the     *)
(* flow).                                                                  *)
(***************************************************************************)
C8_FaultsBecomeFailureResults ==
    \A p \in Flows :
        pc[p] = "idle" \/
        /\ pc[p] \in { "idle", "validate", "fetch_wallet", "fetch_products",
                       "verify", "insert_orders", "update_credit", "notify",
                       "send_buyer", "send_admin", "finish", "except",
                       "returned" }
        /\ Returned(p) =>
             /\ "success" \in DOMAIN ret[p] /\ "message" \in DOMAIN ret[p]
             /\ IsSuccess(ret[p]) \/ IsPaymentRequired(ret[p]) \/ IsFailure(ret[p])
             /\ IsPaymentRequired(ret[p]) => ret[p].success = FALSE
        /\ faultAt[p] # "none" =>
             /\ pc[p] \in { "except", "returned" }
             /\ Returned(p) =>
                  /\ IsFailure(ret[p])
                  /\ ret[p].message = <<"Error: ", exc[p]>>
        /\ ~Returned(p) => ret[p] = None
        /\ pc[p] \notin { "idle", "returned" } => ENABLED Step(p)

C8_Witness ==
    /\ \E p \in Flows : Returned(p) /\ faultAt[p] = "verify" /\ exc[p] = "facilitator"
    /\ calls = 2
    /\ orders # <<>>

(***************************************************************************)
(* C9. Once the products are resolved, total_cost is the exact sum of the  *)
(* catalog prices of the requested ids the catalog holds (the others add   *)
(* nothing and do not fail the request); that total is the amount posted   *)
(* to the facilitator, the amount_wei of a payment-required result and the *)
(* amount by which the credit is debited.                                  *)
(***************************************************************************)
C9_TotalIsExactSum ==
    \A p \in Flows :
        pc[p] # "idle" =>
        LET expected == ExpectedTotal(p)
        IN
        /\ products[p] # <<>> =>
             /\ total_cost_wei[p] = expected
             /\ Len(products[p]) = Cardinality(Resolved(productIDs[p]))
        /\ request[p] # None =>
             /\ ParseDecimal(request[p].expectedAmountWei) = expected
             /\ request[p].expectedRecipient = SELLER_WALLET
             /\ request[p].signedTransactionHex = signed_tx_hex[p]
        /\ (Returned(p) /\ IsPaymentRequired(ret[p])) =>
             ret[p].amount_wei = expected
        /\ ( \/ pc[p] \in { "notify", "send_buyer", "send_admin", "finish" }
             \/ Returned(p) /\ IsSuccess(ret[p]) ) =>
             CreditBefore(p) - wallet.credit = expected
        /\ (Returned(p) /\ products[p] = <<>> /\ wallet_data[p] # None
              /\ faultAt[p] = "none" /\ productIDs[p] # <<>>) =>
             (Resolved(productIDs[p]) = {} /\ ret[p] = NoProductsFoundResult)

\* Two products bought in one request: 1200 + 800.
C9_Witness ==
    \E p \in Flows :
        /\ Returned(p)
        /\ IsSuccess(ret[p])
        /\ productIDs[p] = <<2, 1>>
        /\ request[p].expectedAmountWei = <<"2", "0", "0", "0">>
        /\ wallet.credit = INITIAL_CREDIT - 2000

(***************************************************************************)
(* C10. Order rows are only appended, and only by the insert step of an    *)
(* invocation whose payment the facilitator allowed; the wallet is written *)
(* only by the debit step that follows that insert; an invocation that     *)
(* ends in InvalidInput, WalletNotFound, NoProductsFound or                *)
(* payment-required has written nothing.                                   *)
(***************************************************************************)
C10_StepKeepsStoreDiscipline ==
    /\ orders' # orders =>
         \E p \in Flows :
            /\ pc[p] = "insert_orders"
            /\ VerdictAllows(result[p])
            /\ Len(orders') > Len(orders)
            /\ SubSeq(orders', 1, Len(orders)) = orders
            /\ \A i \in (Len(orders) + 1)..Len(orders') :
                  orders'[i].invocation = serial[p] /\ orders'[i].paid = TRUE
    /\ wallet' # wallet =>
         \E p \in Flows :
            /\ pc[p] = "update_credit"
            /\ VerdictAllows(result[p])
            /\ RowsOf(p) # <<>>
            /\ wallet' = [wallet EXCEPT !.credit = wallet.credit - ExpectedTotal(p)]
    /\ \A p \in Flows :
         ( /\ pc'[p] = "returned"
           /\ \/ ret'[p] \in { InvalidInputResult, WalletNotFoundResult,
                               NoProductsFoundResult }
              \/ IsPaymentRequired(ret'[p]) )
         => (orders' = pre'[p].orders /\ wallet' = pre'[p].wallet)

C10_OrdersAppendOnlyAfterAllowed == [][C10_StepKeepsStoreDiscipline]_vars

\* Both kinds of write have happened, and a later invocation that found no
\* product has returned.
C10_Witness ==
    \E p \in Flows :
        /\ Returned(p)
        /\ ret[p] = NoProductsFoundResult
        /\ Len(orders) = 2
        /\ wallet.credit = INITIAL_CREDIT - 2000

====
